---------------------------- MODULE Spec2Model ----------------------------
(***************************************************************************)
(* Model of chat.py: the GroqChat session (conversation_history, chat),   *)
(* the response parser (extract_think_content), format_thinking and the   *)
(* command loop of main.                                                   *)
(*                                                                         *)
(* A text is a sequence of atoms.  An atom is one character, except that   *)
(* the character runs "<think" and "</think" are single atoms, so that     *)
(* "<think>" is the two atoms "<think", ">" and "</think>" is "</think",   *)
(* ">".  "<" occurs in no other atom, hence the tag "<think>" occurs in a  *)
(* text exactly where "<think" is followed by ">", and the model decides   *)
(* regular-expression matches exactly as a character-level match would,    *)
(* including tags that come into being when a span between a "<think"     *)
(* and a ">" is removed.                                                   *)
(***************************************************************************)
EXTENDS Integers, Sequences, FiniteSets, TLC

VARIABLES
    conversation_history,  \* GroqChat.conversation_history
    appended,              \* history variable: every message ever appended, in order
    loop,                  \* position of main: "prompt", "exited", "interrupted"
    user_input,            \* main's user_input of the last iteration (stripped)
    outcome,               \* how the last iteration went
    thinking,              \* first value returned by the last chat()
    response,              \* second value returned by the last chat()
    shown,                 \* panels printed by the last iteration, in order
    text,                  \* argument of extract_think_content (parser runs)
    think_matches,         \* extract_think_content: think_matches
    answer,                \* extract_think_content: response
    formatted,             \* result of format_thinking(think_matches)
    again,                 \* extract_think_content(answer): the answer parsed once more
    stage                  \* position of a parser run

vars == <<conversation_history, appended, loop, user_input,
          outcome, thinking, response, shown,
          text, think_matches, answer, formatted, again, stage>>

sessionVars == <<conversation_history, appended, loop, user_input, outcome,
                 thinking, response, shown>>

parserVars == <<text, think_matches, answer, formatted, again, stage>>

-----------------------------------------------------------------------------
(* Bounds *)

\* longest parser input, counted in pieces (a piece is an atom or a whole tag)
MaxPieces == 5

\* most messages ever appended in one session
MaxAppended == 12

-----------------------------------------------------------------------------
(* Text helpers *)

Min(S) == CHOOSE x \in S : \A y \in S : x <= y

Max(S) == CHOOSE x \in S : \A y \in S : x >= y

\* characters str.strip() removes (the ASCII ones)
Whitespace == {" ", "\t", "\n", "\r", "\f"}

\* str.strip()
strip(s) ==
    LET keep == {i \in 1..Len(s) : s[i] \notin Whitespace}
    IN  IF keep = {} THEN <<>> ELSE SubSeq(s, Min(keep), Max(keep))

\* "<think>" begins at atom i
OpenAt(s, i) == i + 1 <= Len(s) /\ s[i] = "<think" /\ s[i + 1] = ">"

\* "</think>" begins at atom i
CloseAt(s, i) == i + 1 <= Len(s) /\ s[i] = "</think" /\ s[i + 1] = ">"

\* "." without re.DOTALL: everything but a newline
DotNoNewline(c) == c # "\n"

\* "." under re.DOTALL: every character
DotMatches(c) == TRUE

\* (.*?)</think> tried greedily: the last closing tag that can end the match
GreedyClose(s, o) ==
    LET cs == {c \in (o + 2)..Len(s) :
                  CloseAt(s, c) /\ \A j \in (o + 2)..(c - 1) : DotMatches(s[j])}
    IN  IF cs = {} THEN 0 ELSE Max(cs)

\* (.*?)</think> after an opening tag at o: the lazy quantifier takes the
\* fewest characters, so the match ends at the first closing tag; 0 if none
LazyClose(s, o) ==
    LET cs == {c \in (o + 2)..Len(s) :
                  CloseAt(s, c) /\ \A j \in (o + 2)..(c - 1) : DotMatches(s[j])}
    IN  IF cs = {} THEN 0 ELSE Min(cs)

\* the scan shared by re.findall and re.sub: the leftmost match at or after
\* pos, then on from its end.  A match is <<o, c>>: "<think>" at o,
\* "</think>" at c.
RECURSIVE Matches(_, _)
Matches(s, pos) ==
    LET starts == {o \in pos..Len(s) : OpenAt(s, o) /\ LazyClose(s, o) # 0}
    IN  IF starts = {} THEN <<>>
        ELSE LET o == Min(starts)
                 c == LazyClose(s, o)
             IN  <<(<<o, c>>)>> \o Matches(s, c + 2)

\* re.findall(think_pattern, text, re.DOTALL): group 1 of every match
findall(s) ==
    LET ms == Matches(s, 1)
    IN  [k \in 1..Len(ms) |-> SubSeq(s, ms[k][1] + 2, ms[k][2] - 1)]

\* re.sub(think_pattern, '', text, flags=re.DOTALL): what lies between matches
RECURSIVE Between(_, _, _, _)
Between(s, ms, k, pos) ==
    IF k > Len(ms) THEN SubSeq(s, pos, Len(s))
    ELSE SubSeq(s, pos, ms[k][1] - 1) \o Between(s, ms, k + 1, ms[k][2] + 2)

sub(s) == Between(s, Matches(s, 1), 1, 1)

\* a parser that trims first and removes the spans afterwards
extract_strip_first(s) == <<findall(s), sub(strip(s))>>

\* GroqChat.extract_think_content
extract_think_content(s) == <<findall(s), strip(sub(s))>>


\* one rendered thought: f"[thinking](bulb) {thought.strip()}[/]"; the atom
\* "[thinking]" stands for the style tag, the emoji and the blank after it
RECURSIVE join_thoughts(_, _)
join_thoughts(thoughts, k) ==
    IF k > Len(thoughts) THEN <<>>
    ELSE (IF k = 1 THEN <<>> ELSE <<"\n", "\n">>)
         \o <<"[thinking]">> \o strip(thoughts[k]) \o <<"[/]">>
         \o join_thoughts(thoughts, k + 1)

\* format_thinking
format_thinking(thoughts) == join_thoughts(thoughts, 1)

-----------------------------------------------------------------------------
(* Parser runs: extract_think_content and format_thinking on bounded texts *)

\* what a parser input is assembled from: single atoms and whole tags
Pieces == {<<"<think", ">">>, <<"</think", ">">>, <<"<think">>, <<">">>,
           <<"a">>, <<" ">>, <<"\n">>}

RECURSIVE Flatten(_)
Flatten(ps) == IF ps = <<>> THEN <<>> ELSE Head(ps) \o Flatten(Tail(ps))

PieceSeqs == UNION {[1..n -> Pieces] : n \in 0..MaxPieces}

\* "<think>a</think>mid<think>b</think>end"
TwoSpans == <<"<think", ">", "a", "</think", ">", "m", "i", "d",
              "<think", ">", "b", "</think", ">", "e", "n", "d">>

\* "<think>step one</think>Answer: 42"
StepOne == <<"<think", ">", "s", "t", "e", "p", " ", "o", "n", "e",
             "</think", ">", "A", "n", "s", "w", "e", "r", ":", " ", "4", "2">>

Texts == {Flatten(ps) : ps \in PieceSeqs} \cup {TwoSpans, StepOne}

SessionInit ==
    /\ conversation_history = <<>>
    /\ appended = <<>>
    /\ loop = "prompt"
    /\ user_input = <<>>
    /\ outcome = "none"
    /\ thinking = <<>>
    /\ response = <<>>
    /\ shown = <<>>

ParserIdle ==
    /\ text = <<>>
    /\ think_matches = <<>>
    /\ answer = <<>>
    /\ formatted = <<>>
    /\ again = <<>>
    /\ stage = "idle"

ParseInit ==
    /\ SessionInit
    /\ text \in Texts
    /\ think_matches = <<>>
    /\ answer = <<>>
    /\ formatted = <<>>
    /\ again = <<>>
    /\ stage = "input"

\* thinking, response = extract_think_content(text)
Extract ==
    /\ stage = "input"
    /\ think_matches' = extract_think_content(text)[1]
    /\ answer' = extract_think_content(text)[2]
    /\ stage' = "parsed"
    /\ UNCHANGED <<text, formatted, again>>
    /\ UNCHANGED sessionVars

\* format_thinking(thinking) on the parser's result
FormatThinking ==
    /\ stage = "parsed"
    /\ formatted' = format_thinking(think_matches)
    /\ stage' = "formatted"
    /\ UNCHANGED <<text, think_matches, answer, again>>
    /\ UNCHANGED sessionVars

\* extract_think_content applied to the answer of the previous call
ExtractAgain ==
    /\ stage = "parsed"
    /\ again' = extract_think_content(answer)
    /\ stage' = "reparsed"
    /\ UNCHANGED <<text, think_matches, answer, formatted>>
    /\ UNCHANGED sessionVars

ParseNext == Extract \/ FormatThinking \/ ExtractAgain

ParseSpec == ParseInit /\ [][ParseNext]_vars


-----------------------------------------------------------------------------
(* Properties of the parser *)

\* s holds a complete tagged span: an opening tag with a closing tag after it
HasSpan(s) ==
    \E o \in 1..Len(s), c \in 1..Len(s) :
        OpenAt(s, o) /\ CloseAt(s, c) /\ c >= o + 2

\* no complete tagged span begins at or after pos
NoSpanFrom(s, pos) ==
    \A o \in pos..Len(s), c \in pos..Len(s) :
        ~(OpenAt(s, o) /\ CloseAt(s, c) /\ c >= o + 2)

SpanPairs(s) ==
    {p \in (1..Len(s)) \X (1..Len(s)) :
        OpenAt(s, p[1]) /\ CloseAt(s, p[2]) /\ p[2] >= p[1] + 2}

SpanSeqs(s) == UNION {[1..n -> SpanPairs(s)] : n \in 0..(Len(s) \div 4)}

\* sp lists the non-overlapping complete spans of s in order of appearance:
\* each runs from an opening tag to the first closing tag after it, no
\* opening tag that could start a span lies before it in the text left by
\* the spans before it, and no complete span is left after the last one
SpansOf(s, sp) ==
    LET from(k) == IF k = 1 THEN 1 ELSE sp[k - 1][2] + 2
    IN  /\ \A k \in 1..Len(sp) :
              /\ sp[k][1] >= from(k)
              /\ \A j \in from(k)..(sp[k][1] - 1) : ~OpenAt(s, j)
              /\ \A j \in (sp[k][1] + 2)..(sp[k][2] - 1) : ~CloseAt(s, j)
        /\ NoSpanFrom(s, from(Len(sp) + 1))

Inner(s, p) == SubSeq(s, p[1] + 2, p[2] - 1)

\* in a rendering, the text of every thought begins and ends with a
\* character that is not whitespace
Trimmed(f) ==
    \A i \in 1..Len(f) :
        /\ (f[i] = "[thinking]" /\ i < Len(f)) => f[i + 1] \notin Whitespace
        /\ (f[i] = "[/]" /\ i > 1) => f[i - 1] \notin Whitespace

Rendered(f) == Cardinality({i \in 1..Len(f) : f[i] = "[thinking]"})

\* C7 as stated: for every raw text, parsing the answer again gives empty
\* thinking and the same answer, and no answer holds a complete tagged span.
C7_IdempotentAlways ==
    /\ stage = "reparsed" => again = <<<<>>, answer>>
    /\ stage = "parsed" => ~HasSpan(answer)

\* C7, amended: whenever the answer holds no complete tagged span, parsing it
\* again gives empty thinking and the same answer unchanged.
C7_IdempotentOnTagFree ==
    (stage = "reparsed" /\ ~HasSpan(answer)) => again = <<<<>>, answer>>

\* a raw text with a span, whose answer is not empty and span-free, parsed again
C7_Witness ==
    /\ stage = "reparsed"
    /\ think_matches # <<>>
    /\ answer # <<>>
    /\ ~HasSpan(answer)

\* C8 as stated: thinking has one element per non-overlapping complete span,
\* in order, each the span's inner content with the whitespace around it
\* trimmed.
C8_ThinkingTrimmed ==
    stage = "parsed" =>
        \E sp \in SpanSeqs(text) :
            /\ SpansOf(text, sp)
            /\ think_matches = [k \in 1..Len(sp) |-> strip(Inner(text, sp[k]))]

\* C8, amended: thinking has one element per non-overlapping complete span,
\* in order, each the span's inner content as it stands in the text (newlines
\* and surrounding whitespace included); the whitespace is trimmed only when
\* format_thinking renders the elements.
C8_ThinkingVerbatim ==
    /\ stage # "input" =>
        \E sp \in SpanSeqs(text) :
            /\ SpansOf(text, sp)
            /\ think_matches = [k \in 1..Len(sp) |-> Inner(text, sp[k])]
    /\ stage = "formatted" =>
        /\ Rendered(formatted) = Len(think_matches)
        /\ Trimmed(formatted)

\* two spans, the first over a newline and blanks, rendered
C8_Witness ==
    /\ stage = "formatted"
    /\ Len(think_matches) = 2
    /\ "\n" \in {think_matches[1][i] : i \in 1..Len(think_matches[1])}
    /\ think_matches[2] = <<>>

\* C9 as stated: parse("<think>a</think>mid<think>b</think>end") is
\* (["a","b"], "mid end").
C9_JoinedWithSpace ==
    (stage = "parsed" /\ text = TwoSpans) =>
        /\ think_matches = << <<"a">>, <<"b">> >>
        /\ answer = <<"m", "i", "d", " ", "e", "n", "d">>

\* C9, amended: parse("<think>a</think>mid<think>b</think>end") is
\* (["a","b"], "midend"): the pieces left are joined with nothing between.
C9_JoinedWithNothing ==
    (stage = "parsed" /\ text = TwoSpans) =>
        /\ think_matches = << <<"a">>, <<"b">> >>
        /\ answer = <<"m", "i", "d", "e", "n", "d">>

C9_Witness == stage = "parsed" /\ text = TwoSpans /\ Len(think_matches) = 2


-----------------------------------------------------------------------------
(* The session: GroqChat.chat under the command loop of main *)

\* len(self.conversation_history) > 10 ... [-10:]
MaxHistory == 10

UpperCase == <<"A", "B", "C", "D", "E", "F", "G", "H", "I", "J", "K", "L", "M",
               "N", "O", "P", "Q", "R", "S", "T", "U", "V", "W", "X", "Y", "Z">>

LowerCase == <<"a", "b", "c", "d", "e", "f", "g", "h", "i", "j", "k", "l", "m",
               "n", "o", "p", "q", "r", "s", "t", "u", "v", "w", "x", "y", "z">>

\* the lower-case letter of every upper-case letter
ToLower ==
    [c \in {UpperCase[k] : k \in 1..26} |->
        LowerCase[CHOOSE k \in 1..26 : UpperCase[k] = c]]

\* str.lower()
lower(s) ==
    [i \in 1..Len(s) |-> IF s[i] \in DOMAIN ToLower THEN ToLower[s[i]] ELSE s[i]]

\* lines the user may type at the prompt, as typed
Lines == { <<" ", "Q", "u", "i", "t">>,
           <<"/", "C", "L", "E", "A", "R", " ">>,
           <<"/", "h", "e", "l", "p">>,
           <<" ", "h", "i", " ">> }

\* message.content of a completion that succeeds
Replies == { <<"<think", ">", " ", "t", "\n", "</think", ">", "o", "k">>,
             <<"o", "k">> }

\* the text create_reasoning_prompt puts after the user's input
\* (the steps before and after the tag it names are one atom each)
ReasoningTemplate ==
    <<"\n", "\n", "Please approach this step-by-step: ... using ", "<think", ">",
      " tags ... 4. Provide a clear, final response">>

\* GroqChat.create_reasoning_prompt
create_reasoning_prompt(input) == input \o ReasoningTemplate

\* the text chat() returns when the remote call fails
Apology == <<"I apologize, but I encountered an error. Please try again.">>

\* a user message filed under the assistant's role
UserMessageAsAssistant(input) ==
    [role |-> "assistant", content |-> create_reasoning_prompt(input)]

\* {"role": "user", "content": formatted_input}
UserMessage(input) == [role |-> "user", content |-> create_reasoning_prompt(input)]

\* {"role": "assistant", "content": full_response}
AssistantMessage(full_response) == [role |-> "assistant", content |-> full_response]

\* a truncation that keeps the oldest entries: [:10]
TruncateKeepsOldest(h) ==
    IF Len(h) > MaxHistory THEN SubSeq(h, 1, MaxHistory) ELSE h

\* a truncation that sets in one message early: >= 10 ... [-9:]
TruncateTooEarly(h) ==
    IF Len(h) >= MaxHistory THEN SubSeq(h, Len(h) - MaxHistory + 2, Len(h)) ELSE h

\* if len(h) > 10: h = h[-10:]
Truncate(h) ==
    IF Len(h) > MaxHistory THEN SubSeq(h, Len(h) - MaxHistory + 1, Len(h)) ELSE h

Commands == { <<"q", "u", "i", "t">>, <<"/", "c", "l", "e", "a", "r">>,
              <<"/", "h", "e", "l", "p">> }

Init == SessionInit /\ ParserIdle

\* user_input.lower() == 'quit': goodbye panel, break
MainQuit(line) ==
    /\ loop = "prompt"
    /\ lower(strip(line)) = <<"q", "u", "i", "t">>
    /\ user_input' = strip(line)
    /\ loop' = "exited"
    /\ outcome' = "quit"
    /\ shown' = <<"goodbye">>
    /\ UNCHANGED <<conversation_history, appended, thinking, response>>
    /\ UNCHANGED parserVars

\* user_input.lower() == '/clear': console.clear(), display_welcome(), continue
MainClear(line) ==
    /\ loop = "prompt"
    /\ lower(strip(line)) = <<"/", "c", "l", "e", "a", "r">>
    /\ user_input' = strip(line)
    /\ outcome' = "clear"
    /\ shown' = <<"welcome">>
    /\ UNCHANGED <<conversation_history, appended, loop, thinking, response>>
    /\ UNCHANGED parserVars

\* user_input.lower() == '/help': help panel, continue
MainHelp(line) ==
    /\ loop = "prompt"
    /\ lower(strip(line)) = <<"/", "h", "e", "l", "p">>
    /\ user_input' = strip(line)
    /\ outcome' = "help"
    /\ shown' = <<"help">>
    /\ UNCHANGED <<conversation_history, appended, loop, thinking, response>>
    /\ UNCHANGED parserVars

\* the line is no command: main calls chat.chat(user_input)
IsTurn(line, room) ==
    /\ loop = "prompt"
    /\ lower(strip(line)) \notin Commands
    /\ Len(appended) + room <= MaxAppended

\* chat() with a completion that succeeds, then the panels of main
MainTurnOk(line, full_response) ==
    /\ IsTurn(line, 2)
    /\ user_input' = strip(line)
    /\ conversation_history' =
           Truncate(conversation_history
                    \o <<UserMessage(strip(line)), AssistantMessage(full_response)>>)
    /\ appended' = appended \o <<UserMessage(strip(line)), AssistantMessage(full_response)>>
    /\ LET parsed == extract_think_content(full_response)
       IN  /\ thinking' = parsed[1]
           /\ response' = parsed[2]
           /\ shown' = (IF parsed[1] # <<>> THEN <<"thinking">> ELSE <<>>)
                        \o <<"response">>
    /\ outcome' = "ok"
    /\ UNCHANGED loop
    /\ UNCHANGED parserVars

\* a recovery that also files the apology as the assistant's message
MainTurnApiErrorFilesApology(line, at) ==
    /\ IsTurn(line, 2)
    /\ user_input' = strip(line)
    /\ conversation_history' =
           conversation_history \o <<UserMessage(strip(line)), AssistantMessage(Apology)>>
    /\ appended' = appended \o <<UserMessage(strip(line)), AssistantMessage(Apology)>>
    /\ thinking' = <<>>
    /\ response' = Apology
    /\ outcome' = at
    /\ shown' = <<"api_error", "response">>
    /\ UNCHANGED loop
    /\ UNCHANGED parserVars

\* chat() when the try block raises, at completions.create or while the
\* reply is read from the completion: the except clause prints the API
\* error panel and returns [], apology; main prints the response panel
MainTurnApiError(line, at) ==
    /\ IsTurn(line, 1)
    /\ user_input' = strip(line)
    /\ conversation_history' = Append(conversation_history, UserMessage(strip(line)))
    /\ appended' = Append(appended, UserMessage(strip(line)))
    /\ thinking' = <<>>
    /\ response' = Apology
    /\ outcome' = at
    /\ shown' = <<"api_error", "response">>
    /\ UNCHANGED loop
    /\ UNCHANGED parserVars

\* a main without the try around the turn: the exception ends the loop
MainTurnRaisedUncaught(line) ==
    /\ IsTurn(line, 1)
    /\ user_input' = strip(line)
    /\ conversation_history' = Append(conversation_history, UserMessage(strip(line)))
    /\ appended' = Append(appended, UserMessage(strip(line)))
    /\ outcome' = "raised"
    /\ shown' = <<"fatal">>
    /\ loop' = "crashed"
    /\ UNCHANGED <<thinking, response>>
    /\ UNCHANGED parserVars

\* chat() when the completion carries no text (content is None):
\* extract_think_content raises after the try block, before the assistant
\* message is appended; main's except prints the error panel and loops
MainTurnRaised(line) ==
    /\ IsTurn(line, 1)
    /\ user_input' = strip(line)
    /\ conversation_history' = Append(conversation_history, UserMessage(strip(line)))
    /\ appended' = Append(appended, UserMessage(strip(line)))
    /\ outcome' = "raised"
    /\ shown' = <<"error">>
    /\ UNCHANGED <<loop, thinking, response>>
    /\ UNCHANGED parserVars

\* KeyboardInterrupt while the remote call is pending: no except Exception
\* catches it, the user message stays, the process ends
MainTurnInterrupted(line) ==
    /\ IsTurn(line, 1)
    /\ user_input' = strip(line)
    /\ conversation_history' = Append(conversation_history, UserMessage(strip(line)))
    /\ appended' = Append(appended, UserMessage(strip(line)))
    /\ outcome' = "interrupt"
    /\ shown' = <<"terminated">>
    /\ loop' = "interrupted"
    /\ UNCHANGED <<thinking, response>>
    /\ UNCHANGED parserVars

\* KeyboardInterrupt at the prompt
MainInterrupt ==
    /\ loop = "prompt"
    /\ outcome' = "interrupt"
    /\ shown' = <<"terminated">>
    /\ loop' = "interrupted"
    /\ UNCHANGED <<conversation_history, appended, user_input, thinking, response>>
    /\ UNCHANGED parserVars

ApiErrors == {"api_error_create", "api_error_reply"}

Next ==
    \/ \E line \in Lines : MainQuit(line)
    \/ \E line \in Lines : MainClear(line)
    \/ \E line \in Lines : MainHelp(line)
    \/ \E line \in Lines, full_response \in Replies : MainTurnOk(line, full_response)
    \/ \E line \in Lines, at \in ApiErrors : MainTurnApiError(line, at)
    \/ \E line \in Lines : MainTurnRaised(line)
    \/ \E line \in Lines : MainTurnInterrupted(line)
    \/ MainInterrupt

Spec == Init /\ [][Next]_vars


-----------------------------------------------------------------------------
(* Properties of the session *)

Roles(h, r) == {i \in 1..Len(h) : h[i].role = r}

\* every send so far returned a reply: each user message has its assistant message
AllSucceeded == 2 * Cardinality(Roles(appended, "assistant")) = Len(appended)

\* the last n entries of h
LastN(h, n) == SubSeq(h, Len(h) - n + 1, Len(h))

\* C1: between operations, whatever sends succeeded or failed, the history
\* holds at most 10 messages.
C1_AtMostTen == Len(conversation_history) <= MaxHistory

\* C2: once /clear has been processed the conversation history is empty.
C2_ClearEmpties == outcome = "clear" => conversation_history = <<>>

\* C3: a send whose remote call fails returns empty thinking and the apology
\* without raising, and leaves the history as it was before the send plus
\* this turn's user message and nothing else.
C3_ApiErrorKeepsUserTurn ==
    [][outcome' \in ApiErrors =>
          /\ conversation_history' =
                 Append(conversation_history, UserMessage(user_input'))
          /\ thinking' = <<>>
          /\ response' = Apology
          /\ loop' = "prompt"
          /\ shown' = <<"api_error", "response">>]_vars

\* a failed send on a session that already holds a full turn
C3_Witness ==
    /\ outcome = "api_error_reply"
    /\ Len(conversation_history) >= 3
    /\ conversation_history[Len(conversation_history) - 1].role = "assistant"

\* C4: on a fresh session n successful sends with 2n <= 10 leave exactly 2n
\* messages, user and assistant alternating, user first.
C4_SuccessfulSendsAlternate ==
    (AllSucceeded /\ Len(appended) <= MaxHistory) =>
        /\ Len(conversation_history) = Len(appended)
        /\ \A i \in 1..Len(conversation_history) :
              conversation_history[i].role =
                  IF i % 2 = 1 THEN "user" ELSE "assistant"

\* five successful sends: ten messages, the most that escapes truncation
C4_Witness ==
    /\ AllSucceeded
    /\ outcome = "ok"
    /\ Len(appended) = MaxHistory

\* C5: right after a successful send the history is the last min(10, k) of
\* the k messages appended since the session began, in their order.
C5_SlidingWindow ==
    outcome = "ok" =>
        conversation_history =
            LastN(appended, IF Len(appended) < MaxHistory
                            THEN Len(appended) ELSE MaxHistory)

\* twelve messages appended, failed sends among them, then a successful send
C5_Witness ==
    /\ outcome = "ok"
    /\ Len(appended) = MaxHistory + 2
    /\ \E i \in 1..(Len(appended) - 1) :
          appended[i].role = "user" /\ appended[i + 1].role = "user"
    /\ Cardinality({appended[i] : i \in Roles(appended, "assistant")}) = 2

C10_AssistantFollowsUser ==
    \A i \in 2..Len(conversation_history) :
        conversation_history[i].role = "assistant" =>
            conversation_history[i - 1].role = "user"

\* truncation has left an assistant message at the front
C10_Witness ==
    /\ Len(conversation_history) = MaxHistory
    /\ conversation_history[1].role = "assistant"

=============================================================================
